---- MODULE Spec2Model ----
(***************************************************************************)
(* Model of the planning tools of the deep_cognitive_agent project:        *)
(*   - write_todos (project/.../tools/planning/write_todos.py): prompt the *)
(*     LLM, strip code fences, json.loads, validate, build the todo list;  *)
(*   - write_todos (autonomous-cognitive-engine/.../tools/planning.py):    *)
(*     prompt the LLM and return the response text;                        *)
(*   - run_agent (project/.../app.py): stream a ReAct agent and extract    *)
(*     the todos from its write_todos tool messages.                       *)
(* A text is a sequence of one-character strings; a fixed phrase of a     *)
(* message (a prompt, an error text, a key) may stand as one token.        *)
(***************************************************************************)
EXTENDS Integers, Sequences, FiniteSets, TLC

\* ------------------------------------------------------------------ bounds
\* Longest JSON array of steps the modelled LLM replies with.
MaxSteps == 2

\* ------------------------------------------------------------ text helpers
\* Characters str.strip() removes (those of the modelled alphabet).
PyWhitespace == {" ", "\t", "\n", "\r", "\f"}

\* Characters the json decoder skips between tokens (json.decoder.WHITESPACE).
JsonWhitespace == {" ", "\t", "\n", "\r"}

Digits == {"0", "1", "2", "3", "4", "5", "6", "7", "8", "9"}

HexDigits == Digits \cup {"a", "b", "c", "d", "e", "f", "A", "B", "C", "D", "E", "F"}

\* Raw characters json.loads (strict) refuses inside a string literal.
ControlChars == {"\t", "\n", "\r", "\f"}

RECURSIVE LStrip(_)
LStrip(s) ==
  IF s # <<>> /\ Head(s) \in PyWhitespace THEN LStrip(Tail(s)) ELSE s

RECURSIVE RStrip(_)
RStrip(s) ==
  IF s # <<>> /\ s[Len(s)] \in PyWhitespace
    THEN RStrip(SubSeq(s, 1, Len(s) - 1))
    ELSE s

\* str.strip()
Strip(s) == RStrip(LStrip(s))

\* str.startswith(p)
StartsWith(s, p) == Len(s) >= Len(p) /\ SubSeq(s, 1, Len(p)) = p

\* str.endswith(p)
EndsWith(s, p) == Len(s) >= Len(p) /\ SubSeq(s, Len(s) - Len(p) + 1, Len(s)) = p

\* "\n" in s
HasNewline(s) == \E i \in 1..Len(s) : s[i] = "\n"

\* s.split("\n", 1)[1], for s holding a newline
AfterFirstNewline(s) ==
  LET i == CHOOSE k \in 1..Len(s) : s[k] = "\n" /\ \A j \in 1..(k - 1) : s[j] # "\n"
  IN  SubSeq(s, i + 1, Len(s))

\* whether text p occurs in text s
Contains(s, p) ==
  \E i \in 0..(Len(s) - Len(p)) : SubSeq(s, i + 1, i + Len(p)) = p

\* The backtick, which a TLA+ string cannot hold, is kept as a token.
Backtick == "<backtick>"

\* The code fence marker
Fence == <<Backtick, Backtick, Backtick>>

\* RemoveOpeningFence gone wrong: cleaned[3:] whatever follows the marker.
RemoveOpeningFenceNoSplit(c) == SubSeq(c, 4, Len(c))

\* cleaned.split("\n", 1)[1] if "\n" in cleaned else cleaned[3:]
RemoveOpeningFence(c) ==
  IF HasNewline(c) THEN AfterFirstNewline(c) ELSE SubSeq(c, 4, Len(c))

\* The fence stripping of write_todos: cleaned, from response_text.
StripFences(response_text) ==
  LET c0 == Strip(response_text)
      c1 == IF StartsWith(c0, Fence) THEN RemoveOpeningFence(c0) ELSE c0
      c2 == IF EndsWith(c1, Fence) THEN SubSeq(c1, 1, Len(c1) - 3) ELSE c1
  IN  Strip(c2)

\* ------------------------------------------------------------ json.loads
\* A decoded value is [t |-> its Python type name, v |-> its content]:
\* str: the characters; int, float, bool: the literal's text; NoneType: <<>>;
\* list: the values; dict: the <<key, value>> pairs in source order.
\* A scan result is [ok, val, end]: end is the index after the value.
ScanFail == [ok |-> FALSE, val |-> <<>>, end |-> 0]

ScanOk(t, v, e) == [ok |-> TRUE, val |-> [t |-> t, v |-> v], end |-> e]

At(s, i) == IF i >= 1 /\ i <= Len(s) THEN s[i] ELSE "<eof>"

RECURSIVE SkipWs(_, _)
SkipWs(s, i) ==
  IF At(s, i) \in JsonWhitespace THEN SkipWs(s, i + 1) ELSE i

RECURSIVE SkipDigits(_, _)
SkipDigits(s, i) ==
  IF At(s, i) \in Digits THEN SkipDigits(s, i + 1) ELSE i

\* s[i:].startswith(lit)
LiteralAt(s, i, lit) ==
  i + Len(lit) - 1 <= Len(s) /\ SubSeq(s, i, i + Len(lit) - 1) = lit

\* The character a backslash escape stands for ("" when it is no escape).
\* Escapes \b and \uXXXX decode to characters kept here as opaque tokens.
Unescape(c) ==
  CASE c = "\"" -> "\""
    [] c = "\\" -> "\\"
    [] c = "/" -> "/"
    [] c = "b" -> "<BS>"
    [] c = "f" -> "\f"
    [] c = "n" -> "\n"
    [] c = "r" -> "\r"
    [] c = "t" -> "\t"
    [] OTHER -> ""

\* json.decoder.py_scanstring: i is the index after the opening quote.
RECURSIVE ScanString(_, _, _)
ScanString(s, i, acc) ==
  LET c == At(s, i) IN
  IF c = "<eof>" THEN ScanFail
  ELSE IF c = "\"" THEN ScanOk("str", acc, i + 1)
  ELSE IF c \in ControlChars THEN ScanFail
  ELSE IF c # "\\" THEN ScanString(s, i + 1, Append(acc, c))
  ELSE IF At(s, i + 1) = "u"
    THEN IF \A k \in 2..5 : At(s, i + k) \in HexDigits
           THEN ScanString(s, i + 6, Append(acc, "<U>"))
           ELSE ScanFail
  ELSE IF At(s, i + 1) = "<eof>" \/ Unescape(At(s, i + 1)) = "" THEN ScanFail
  ELSE ScanString(s, i + 2, Append(acc, Unescape(At(s, i + 1))))

\* json.scanner NUMBER_RE, matched at i: the index after the match, 0 for none.
NumberIntEnd(s, i) ==
  LET j == IF At(s, i) = "-" THEN i + 1 ELSE i IN
  IF At(s, j) = "0" THEN j + 1
  ELSE IF At(s, j) \in Digits THEN SkipDigits(s, j)
  ELSE 0

NumberFracEnd(s, i) ==
  IF At(s, i) = "." /\ At(s, i + 1) \in Digits THEN SkipDigits(s, i + 1) ELSE i

NumberExpEnd(s, i) ==
  LET j == IF At(s, i + 1) \in {"-", "+"} THEN i + 2 ELSE i + 1 IN
  IF At(s, i) \in {"e", "E"} /\ At(s, j) \in Digits THEN SkipDigits(s, j) ELSE i

ScanNumber(s, i) ==
  LET a == NumberIntEnd(s, i) IN
  IF a = 0 THEN ScanFail
  ELSE LET e == NumberExpEnd(s, NumberFracEnd(s, a)) IN
       ScanOk(IF e = a THEN "int" ELSE "float", SubSeq(s, i, e - 1), e)

RECURSIVE ScanOnce(_, _)
RECURSIVE JSONArray(_, _, _)
RECURSIVE JSONObject(_, _, _)

\* json.scanner.py_make_scanner._scan_once
ScanOnce(s, i) ==
  LET c == At(s, i) IN
  IF c = "<eof>" THEN ScanFail
  ELSE IF c = "\"" THEN ScanString(s, i + 1, <<>>)
  ELSE IF c = "{" THEN
    LET j == SkipWs(s, i + 1) IN
    IF At(s, j) = "}" THEN ScanOk("dict", <<>>, j + 1)
    ELSE IF At(s, j) = "\"" THEN JSONObject(s, j + 1, <<>>)
    ELSE ScanFail
  ELSE IF c = "[" THEN
    LET j == SkipWs(s, i + 1) IN
    IF At(s, j) = "]" THEN ScanOk("list", <<>>, j + 1)
    ELSE JSONArray(s, j, <<>>)
  ELSE IF LiteralAt(s, i, <<"n", "u", "l", "l">>) THEN ScanOk("NoneType", <<>>, i + 4)
  ELSE IF LiteralAt(s, i, <<"t", "r", "u", "e">>) THEN ScanOk("bool", <<"true">>, i + 4)
  ELSE IF LiteralAt(s, i, <<"f", "a", "l", "s", "e">>) THEN ScanOk("bool", <<"false">>, i + 5)
  ELSE IF NumberIntEnd(s, i) # 0 THEN ScanNumber(s, i)
  ELSE IF LiteralAt(s, i, <<"N", "a", "N">>) THEN ScanOk("float", <<"nan">>, i + 3)
  ELSE IF LiteralAt(s, i, <<"I", "n", "f", "i", "n", "i", "t", "y">>)
    THEN ScanOk("float", <<"inf">>, i + 8)
  ELSE IF LiteralAt(s, i, <<"-", "I", "n", "f", "i", "n", "i", "t", "y">>)
    THEN ScanOk("float", <<"-inf">>, i + 9)
  ELSE ScanFail

\* json.decoder.JSONArray: i is the index of the next element.
JSONArray(s, i, values) ==
  LET r == ScanOnce(s, i) IN
  IF ~r.ok THEN ScanFail
  ELSE LET j == SkipWs(s, r.end)
           vs == Append(values, r.val)
       IN  IF At(s, j) = "]" THEN ScanOk("list", vs, j + 1)
           ELSE IF At(s, j) = "," THEN JSONArray(s, SkipWs(s, j + 1), vs)
           ELSE ScanFail

\* json.decoder.JSONObject: i is the index after the opening quote of a key.
JSONObject(s, i, pairs) ==
  LET k == ScanString(s, i, <<>>) IN
  IF ~k.ok THEN ScanFail
  ELSE LET c == SkipWs(s, k.end) IN
    IF At(s, c) # ":" THEN ScanFail
    ELSE LET r == ScanOnce(s, SkipWs(s, c + 1)) IN
      IF ~r.ok THEN ScanFail
      ELSE LET j == SkipWs(s, r.end)
               ps == Append(pairs, <<k.val.v, r.val>>)
           IN  IF At(s, j) = "}" THEN ScanOk("dict", ps, j + 1)
               ELSE IF At(s, j) = ","
                 THEN LET q == SkipWs(s, j + 1) IN
                      IF At(s, q) = "\"" THEN JSONObject(s, q + 1, ps) ELSE ScanFail
               ELSE ScanFail

\* json.loads(s): the whole text is one value between optional whitespace.
JsonLoads(s) ==
  LET r == ScanOnce(s, SkipWs(s, 1)) IN
  IF r.ok /\ SkipWs(s, r.end) = Len(s) + 1 THEN r ELSE ScanFail

\* ------------------------------------------------- write_todos (JSON mode)
\* An outcome of a call: what it returned, or what it raised.
NoOutcome == [kind |-> "none", todos |-> <<>>, exc |-> "", msg |-> <<>>]

Returned(todos) == [kind |-> "return", todos |-> todos, exc |-> "", msg |-> <<>>]

Raised(exc, msg) == [kind |-> "raise", todos |-> <<>>, exc |-> exc, msg |-> msg]

\* A decoded value not yet assigned.
NoValue == [t |-> "unset", v |-> <<>>]

\* What llm.invoke did: returned a message with this content, or raised.
NoReply == [raised |-> "", content |-> <<>>]

\* The message of the ValueError raised when json.loads fails.
DecodeErrorMessage(response_text) ==
  <<"LLM did not return valid JSON. Raw response:\n">> \o response_text
    \o <<"\n\nJSON error: ", "JSONDecodeError">>

\* The message of the ValueError raised for a value that is no list of str.
ShapeErrorMessage(steps) ==
  <<"LLM returned JSON but not a list of strings. Got: ", "<class '", steps.t, "'>">>

\* IsListOfStrings gone wrong: the elements are not looked at.
IsList(steps) == steps.t = "list"

\* isinstance(steps, list) and all(isinstance(s, str) for s in steps)
IsListOfStrings(steps) ==
  steps.t = "list" /\ \A i \in 1..Len(steps.v) : steps.v[i].t = "str"

\* TodosOf gone wrong: the steps come out last first.
TodosOfReversed(steps) ==
  [i \in 1..Len(steps.v) |->
     [task |-> steps.v[Len(steps.v) + 1 - i].v, status |-> "pending"]]

\* [{"task": step, "status": "pending"} for step in steps]
TodosOf(steps) ==
  [i \in 1..Len(steps.v) |-> [task |-> steps.v[i].v, status |-> "pending"]]

\* Propagate gone wrong: the provider's exception is wrapped in a ValueError.
PropagateWrapped(e) == Raised("ValueError", <<"LLM call failed: ", e>>)

\* An exception of llm.invoke leaves write_todos as it is: no handler.
Propagate(e) == Raised(e, <<>>)

\* -------------------------------------------------------- the LLM's replies
\* Step texts the modelled LLM writes: plain, empty, untrimmed with a quote.
StepTexts == { <<"R">>, <<>>, <<" ", "D", "\"">> }

\* The arrays of steps: every sequence of at most MaxSteps step texts.
Arrays == UNION { [1..n -> StepTexts] : n \in 0..MaxSteps }

\* A text with the characters a JSON string literal must escape escaped.
RECURSIVE EscapeText(_)
EscapeText(t) ==
  IF t = <<>> THEN <<>>
  ELSE LET c == Head(t)
           e == CASE c = "\"" -> <<"\\", "\"">>
                  [] c = "\\" -> <<"\\", "\\">>
                  [] c = "\n" -> <<"\\", "n">>
                  [] c = "\t" -> <<"\\", "t">>
                  [] c = "\r" -> <<"\\", "r">>
                  [] c = "\f" -> <<"\\", "f">>
                  [] OTHER -> <<c>>
       IN  e \o EscapeText(Tail(t))

EncodeString(t) == <<"\"">> \o EscapeText(t) \o <<"\"">>

RECURSIVE EncodeItems(_)
EncodeItems(A) ==
  IF A = <<>> THEN <<>>
  ELSE IF Len(A) = 1 THEN EncodeString(A[1])
  ELSE EncodeString(A[1]) \o <<",", " ">> \o EncodeItems(Tail(A))

\* The JSON text of an array of strings, written as the prompt's example is.
EncodeArray(A) == <<"[">> \o EncodeItems(A) \o <<"]">>

LangTag == <<"j", "s", "o", "n">>

\* The ways the modelled LLM dresses a body b.
Wrappers == {"plain", "padded", "fence", "fence_json", "padded_fence_json"}

FencedWrappers == {"fence", "fence_json", "padded_fence_json"}

Wrap(w, b) ==
  CASE w = "plain" -> b
    [] w = "padded" -> <<" ">> \o b \o <<"\n">>
    [] w = "fence" -> Fence \o <<"\n">> \o b \o <<"\n">> \o Fence
    [] w = "fence_json" -> Fence \o LangTag \o <<"\n">> \o b \o <<"\n">> \o Fence
    [] w = "padded_fence_json" ->
         <<"\n", " ">> \o Fence \o LangTag \o <<" ", "\n">> \o b \o <<"\n">> \o Fence \o <<" ", "\n">>

\* Bodies that are JSON values but no array of strings.
OtherJson ==
  { <<"{", "\"", "R", "\"", ":", " ", "1", "}">>,
    <<"{", "}">>,
    <<"7">>,
    <<"-", "1", ".", "5">>,
    <<"n", "u", "l", "l">>,
    <<"t", "r", "u", "e">>,
    <<"\"", "R", "\"">>,
    <<"[", "1", "]">>,
    <<"[", "\"", "R", "\"", ",", " ", "2", "]">>,
    <<"[", "n", "u", "l", "l", "]">>,
    <<"[", "[", "\"", "R", "\"", "]", "]">> }

\* Bodies json.loads decodes although they are no JSON (RFC 8259).
LenientJson ==
  { <<"N", "a", "N">>,
    <<"-", "I", "n", "f", "i", "n", "i", "t", "y">> }

\* Bodies json.loads refuses.
NotJson ==
  { <<"n", "o", "t", " ", "j", "s", "o", "n">>,
    <<>>,
    <<"[", "\"", "R", "\"", ",", "]">>,
    <<"[", "\"", "R", "\"">>,
    <<"[", "'", "R", "'", "]">>,
    <<"[", "\"", "R", "\"", "]", " ", "x">>,
    <<"[", "\"", "R", "\n", "\"", "]">>,
    <<"1", ".", " ", "R">>,
    Fence \o <<"[", "]">> }

\* Every content the modelled LLM replies with.
Responses ==
  { Wrap(w, EncodeArray(A)) : w \in Wrappers, A \in Arrays }
    \cup { Wrap(w, b) : w \in {"plain", "fence_json"},
                        b \in OtherJson \cup LenientJson \cup NotJson }
    \cup { Fence \o EncodeArray(<<<<"R">>>>) \o Fence, Fence \o LangTag }

\* Exceptions llm.invoke raises (groq's transport, auth and quota errors).
ProviderErrors == {"APIConnectionError", "AuthenticationError", "RateLimitError"}

\* The goals write_todos is called with.
Goals == { <<"X">>, <<>> }

\* ------------------------------------------------------------------ state
VARIABLES
  \* write_todos, JSON mode (tools/planning/write_todos.py)
  pc,             \* where the current write_todos call stands
  task,           \* its argument
  llm_calls,      \* llm.invoke calls it has made
  reply,          \* what llm.invoke did
  response_text,  \* its local response_text
  cleaned,        \* its local cleaned
  steps,          \* its local steps
  outcome,        \* what it returned or raised
  prev,           \* an earlier call's reply and outcome, as its caller saw them
  \* write_todos, text mode (tools/planning.py)
  t_pc,           \* where the current call stands
  goal,           \* its argument
  t_reply,        \* what llm.invoke did
  t_outcome,      \* what it returned or raised
  \* run_agent (app.py)
  a_pc,           \* where the current run_agent call stands
  a_task,         \* its argument task
  thread_id,      \* its argument thread_id
  node,           \* the node the agent graph runs next
  messages,       \* the graph state's messages
  saved,          \* the checkpointer's messages of thread "default"
  final_state,    \* its local final_state
  todos,          \* its local todos
  result          \* what it returned

jsonVars == <<pc, task, llm_calls, reply, response_text, cleaned, steps, outcome, prev>>

textVars == <<t_pc, goal, t_reply, t_outcome>>

agentVars == <<a_pc, a_task, thread_id, node, messages, saved, final_state, todos, result>>

vars == <<jsonVars, textVars, agentVars>>

NoCall == [called |-> FALSE, reply |-> NoReply, outcome |-> NoOutcome]

InitJson ==
  /\ pc = "idle"
  /\ task = <<>>
  /\ llm_calls = 0
  /\ reply = NoReply
  /\ response_text = <<>>
  /\ cleaned = <<>>
  /\ steps = NoValue
  /\ outcome = NoOutcome
  /\ prev = NoCall

\* write_todos(task) is entered: a new frame.
Call ==
  /\ pc = "idle"
  /\ \E g \in Goals : task' = g
  /\ pc' = "invoke"
  /\ llm_calls' = 0
  /\ reply' = NoReply
  /\ response_text' = <<>>
  /\ cleaned' = <<>>
  /\ steps' = NoValue
  /\ outcome' = NoOutcome
  /\ UNCHANGED prev
  /\ UNCHANGED <<textVars, agentVars>>

\* response = llm.invoke(formatted_prompt); response_text = response.content
LlmReturns ==
  /\ pc = "invoke"
  /\ \E r \in Responses :
       /\ reply' = [raised |-> "", content |-> r]
       /\ response_text' = r
  /\ llm_calls' = llm_calls + 1
  /\ pc' = "strip"
  /\ UNCHANGED <<task, cleaned, steps, outcome, prev>>
  /\ UNCHANGED <<textVars, agentVars>>

\* llm.invoke raises: nothing in write_todos catches it.
LlmRaises ==
  /\ pc = "invoke"
  /\ \E e \in ProviderErrors :
       /\ reply' = [raised |-> e, content |-> <<>>]
       /\ outcome' = Propagate(e)
  /\ llm_calls' = llm_calls + 1
  /\ pc' = "done"
  /\ UNCHANGED <<task, response_text, cleaned, steps, prev>>
  /\ UNCHANGED <<textVars, agentVars>>

\* cleaned = response_text.strip(), then the fences are removed
Clean ==
  /\ pc = "strip"
  /\ cleaned' = StripFences(response_text)
  /\ pc' = "loads"
  /\ UNCHANGED <<task, llm_calls, reply, response_text, steps, outcome, prev>>
  /\ UNCHANGED <<textVars, agentVars>>

\* steps = json.loads(cleaned), a JSONDecodeError becoming a ValueError
Decode ==
  /\ pc = "loads"
  /\ LET r == JsonLoads(cleaned) IN
       IF r.ok
         THEN /\ steps' = r.val
              /\ pc' = "check"
              /\ UNCHANGED outcome
         ELSE /\ outcome' = Raised("ValueError", DecodeErrorMessage(response_text))
              /\ pc' = "done"
              /\ UNCHANGED steps
  /\ UNCHANGED <<task, llm_calls, reply, response_text, cleaned, prev>>
  /\ UNCHANGED <<textVars, agentVars>>

\* Build gone wrong: the todos are appended to a list the calls share.
BuildOntoSharedList ==
  /\ pc = "check"
  /\ outcome' = IF IsListOfStrings(steps)
                  THEN Returned((IF prev.called THEN prev.outcome.todos ELSE <<>>)
                                  \o TodosOf(steps))
                  ELSE Raised("ValueError", ShapeErrorMessage(steps))
  /\ pc' = "done"
  /\ UNCHANGED <<task, llm_calls, reply, response_text, cleaned, steps, prev>>
  /\ UNCHANGED <<textVars, agentVars>>

\* the isinstance check, then the todos are built and returned
Build ==
  /\ pc = "check"
  /\ outcome' = IF IsListOfStrings(steps)
                  THEN Returned(TodosOf(steps))
                  ELSE Raised("ValueError", ShapeErrorMessage(steps))
  /\ pc' = "done"
  /\ UNCHANGED <<task, llm_calls, reply, response_text, cleaned, steps, prev>>
  /\ UNCHANGED <<textVars, agentVars>>

\* The call is over and its frame is gone; its caller holds the outcome
\* (and may keep it).
Finish ==
  /\ pc = "done"
  /\ pc' = "idle"
  /\ \/ prev' = [called |-> TRUE, reply |-> reply, outcome |-> outcome]
     \/ UNCHANGED prev
  /\ task' = <<>>
  /\ llm_calls' = 0
  /\ reply' = NoReply
  /\ response_text' = <<>>
  /\ cleaned' = <<>>
  /\ steps' = NoValue
  /\ outcome' = NoOutcome
  /\ UNCHANGED <<textVars, agentVars>>

\* write_todos as its caller sees it: the outcome for an LLM content.
WriteTodosOutcome(content) ==
  LET r == JsonLoads(StripFences(content)) IN
  IF ~r.ok THEN Raised("ValueError", DecodeErrorMessage(content))
  ELSE IF IsListOfStrings(r.val) THEN Returned(TodosOf(r.val))
  ELSE Raised("ValueError", ShapeErrorMessage(r.val))

\* ------------------------------------------------- write_todos (text mode)
\* Most lines of a reply of the modelled LLM.
MaxLines == 3

\* The lines it writes: numbered, bulleted, empty, a preamble.
Lines ==
  { <<"1", ".", " ", "Research X">>,
    <<"2", ")", " ", "Draft Y">>,
    <<"-", " ", "Review Z">>,
    <<>>,
    <<"Here is the plan:">> }

RECURSIVE JoinLines(_)
JoinLines(ls) ==
  IF Len(ls) = 1 THEN ls[1] ELSE ls[1] \o <<"\n">> \o JoinLines(Tail(ls))

TextResponses == { JoinLines(ls) : ls \in UNION { [1..n -> Lines] : n \in 1..MaxLines } }

NoTextOutcome == [kind |-> "none", val |-> NoValue, exc |-> ""]

InitText ==
  /\ t_pc = "idle"
  /\ goal = <<>>
  /\ t_reply = NoReply
  /\ t_outcome = NoTextOutcome

\* write_todos(goal) is entered.
TextCall ==
  /\ t_pc = "idle"
  /\ \E g \in Goals : goal' = g
  /\ t_pc' = "invoke"
  /\ UNCHANGED <<t_reply, t_outcome>>
  /\ UNCHANGED <<jsonVars, agentVars>>

\* response = llm.invoke(prompt); return response.content
TextLlmReturns ==
  /\ t_pc = "invoke"
  /\ \E r \in TextResponses :
       /\ t_reply' = [raised |-> "", content |-> r]
       /\ t_outcome' = [kind |-> "return", val |-> [t |-> "str", v |-> r], exc |-> ""]
  /\ t_pc' = "done"
  /\ UNCHANGED goal
  /\ UNCHANGED <<jsonVars, agentVars>>

\* llm.invoke raises: nothing in write_todos catches it.
TextLlmRaises ==
  /\ t_pc = "invoke"
  /\ \E e \in ProviderErrors :
       /\ t_reply' = [raised |-> e, content |-> <<>>]
       /\ t_outcome' = [kind |-> "raise", val |-> NoValue, exc |-> e]
  /\ t_pc' = "done"
  /\ UNCHANGED goal
  /\ UNCHANGED <<jsonVars, agentVars>>

\* The call is over and its frame is gone.
TextFinish ==
  /\ t_pc = "done"
  /\ t_pc' = "idle"
  /\ goal' = <<>>
  /\ t_reply' = NoReply
  /\ t_outcome' = NoTextOutcome
  /\ UNCHANGED <<jsonVars, agentVars>>

\* --------------------------------------------------------------- run_agent
\* Most messages of a thread: the modelled LLM stops calling tools in time.
MaxMessages == 7

Msg(type, name, content, tool_calls) ==
  [type |-> type, name |-> name, content |-> content, tool_calls |-> tool_calls]

\* {"messages": [("system", SYSTEM_PROMPT), ("user", task)]}
InputMessages(tsk) ==
  << Msg("system", "", <<"SYSTEM_PROMPT">>, <<>>), Msg("human", "", tsk, <<>>) >>

\* The tools the agent's LLM asks for: the one bound, and one that is not.
ToolNames == {"write_todos", "web_search"}

\* What the planning LLM inside the write_todos tool replies with.
AgentPlannerReplies ==
  { EncodeArray(<<>>),
    EncodeArray(<< <<"R">> >>),
    Wrap("fence_json", EncodeArray(<< <<"R">>, <<" ", "D", "\"">> >>)),
    <<"n", "o", "t", " ", "j", "s", "o", "n">>,
    <<"{", "}">> }

\* json.dumps of one todo and of the tool's result {"todos": [...]}: what the
\* tool node makes the content of the tool message.
EncodeTodo(td) ==
  <<"{", "\"", "task", "\"", ":", " ">> \o EncodeString(td.task)
    \o <<",", " ", "\"", "status", "\"", ":", " ", "\"", td.status, "\"", "}">>

RECURSIVE EncodeTodoItems(_)
EncodeTodoItems(tds) ==
  IF tds = <<>> THEN <<>>
  ELSE IF Len(tds) = 1 THEN EncodeTodo(tds[1])
  ELSE EncodeTodo(tds[1]) \o <<",", " ">> \o EncodeTodoItems(Tail(tds))

EncodeResult(tds) ==
  <<"{", "\"", "todos", "\"", ":", " ", "[">> \o EncodeTodoItems(tds) \o <<"]", "}">>

\* The content of the tool message the tool node writes for a tool error.
ToolErrorContent(exc) == <<"Error: ", exc, "\n Please fix your mistakes.">>

\* "key" in d, and d["key"], for a decoded dict's pairs (the last pair wins).
HasKey(pairs, key) == \E i \in 1..Len(pairs) : pairs[i][1] = key

DictGet(pairs, key) ==
  LET i == CHOOSE k \in 1..Len(pairs) :
             pairs[k][1] = key /\ \A j \in (k + 1)..Len(pairs) : pairs[j][1] # key
  IN  pairs[i][2]

\* The empty list run_agent starts its todos with.
EmptyList == [t |-> "list", v |-> <<>>]

\* TodosAfterMessage gone wrong: a content that does not parse empties todos.
TodosAfterMessageResetting(tds, msg) ==
  IF msg.name # "write_todos" THEN tds
  ELSE LET r == JsonLoads(msg.content) IN
       IF ~r.ok THEN EmptyList
       ELSE IF r.val.t = "dict" /\ HasKey(r.val.v, <<"todos">>)
         THEN DictGet(r.val.v, <<"todos">>)
       ELSE IF r.val.t = "list" THEN r.val
       ELSE tds

\* The body of run_agent's inner loop for one message.
TodosAfterMessage(tds, msg) ==
  IF msg.name # "write_todos" THEN tds
  ELSE LET r == JsonLoads(msg.content) IN
       IF ~r.ok THEN tds
       ELSE IF r.val.t = "dict" /\ HasKey(r.val.v, <<"todos">>)
         THEN DictGet(r.val.v, <<"todos">>)
       ELSE IF r.val.t = "list" THEN r.val
       ELSE tds

\* run_agent's inner loop over event["messages"].
RECURSIVE TodosAfterEvent(_, _)
TodosAfterEvent(tds, msgs) ==
  IF msgs = <<>> THEN tds
  ELSE TodosAfterEvent(TodosAfterMessage(tds, Head(msgs)), Tail(msgs))

\* Python's truth value of a decoded value.
Truthy(val) ==
  CASE val.t \in {"list", "dict", "str"} -> val.v # <<>>
    [] val.t = "bool" -> val.v = <<"true">>
    [] val.t = "NoneType" -> FALSE
    [] OTHER -> \E i \in 1..Len(val.v) : val.v[i] \in (Digits \ {"0"}) \cup {"n", "i"}

NoState == [set |-> FALSE, messages |-> <<>>, has_todos |-> FALSE, todos |-> EmptyList]

NoResult == [set |-> FALSE, task |-> <<>>, messages |-> <<>>, todos |-> EmptyList]

InitAgent ==
  /\ a_pc = "idle"
  /\ a_task = <<>>
  /\ thread_id = ""
  /\ node = ""
  /\ messages = <<>>
  /\ saved = <<>>
  /\ final_state = NoState
  /\ todos = EmptyList
  /\ result = NoResult

\* run_agent(agent, task, thread_id) is entered: final_state = None, todos = []
RunAgent ==
  /\ a_pc = "idle"
  /\ \E g \in Goals : a_task' = g
  /\ \E th \in {"default", "fresh"} :
       /\ th = "default" => Len(saved) + 3 <= MaxMessages
       /\ thread_id' = th
       /\ messages' = IF th = "default" THEN saved ELSE <<>>
  /\ a_pc' = "stream"
  /\ node' = "input"
  /\ final_state' = NoState
  /\ todos' = EmptyList
  /\ result' = NoResult
  /\ UNCHANGED saved
  /\ UNCHANGED <<jsonVars, textVars>>

\* One pass of run_agent's loop for the event whose messages are msgs:
\* the graph checkpoints its state, run_agent keeps the event and its todos.
LoopBody(msgs) ==
  /\ messages' = msgs
  /\ saved' = IF thread_id = "default" THEN msgs ELSE saved
  /\ final_state' = [set |-> TRUE, messages |-> msgs, has_todos |-> FALSE, todos |-> EmptyList]
  /\ todos' = TodosAfterEvent(todos, msgs)

\* The stream's first event: the thread's messages and the input's.
StreamInput ==
  /\ a_pc = "stream"
  /\ node = "input"
  /\ LoopBody(messages \o InputMessages(a_task))
  /\ node' = "agent"
  /\ UNCHANGED <<a_pc, a_task, thread_id, result>>
  /\ UNCHANGED <<jsonVars, textVars>>

\* The agent node: the LLM asks for a tool, and the tools node is next.
AgentCallsTool ==
  /\ a_pc = "stream"
  /\ node = "agent"
  /\ Len(messages) + 3 <= MaxMessages
  /\ \E tool \in ToolNames :
       LoopBody(Append(messages, Msg("ai", "", <<>>, <<tool>>)))
  /\ node' = "tools"
  /\ UNCHANGED <<a_pc, a_task, thread_id, result>>
  /\ UNCHANGED <<jsonVars, textVars>>

\* The agent node: the LLM answers with no tool call, and the graph ends.
AgentAnswers ==
  /\ a_pc = "stream"
  /\ node = "agent"
  /\ LoopBody(Append(messages, Msg("ai", "", <<"answer">>, <<>>)))
  /\ node' = "end"
  /\ UNCHANGED <<a_pc, a_task, thread_id, result>>
  /\ UNCHANGED <<jsonVars, textVars>>

\* The agent node: the LLM call raises, out of agent.stream and run_agent.
AgentRaises ==
  /\ a_pc = "stream"
  /\ node = "agent"
  /\ a_pc' = "raised"
  /\ UNCHANGED <<a_task, thread_id, node, messages, saved, final_state, todos, result>>
  /\ UNCHANGED <<jsonVars, textVars>>

\* The tool the last AI message asks for.
PendingTool == messages[Len(messages)].tool_calls[1]

\* The tools node runs write_todos, which returns: its result is the content.
ToolReturns ==
  /\ a_pc = "stream"
  /\ node = "tools"
  /\ PendingTool = "write_todos"
  /\ \E r \in AgentPlannerReplies :
       /\ WriteTodosOutcome(r).kind = "return"
       /\ LoopBody(Append(messages,
            Msg("tool", "write_todos", EncodeResult(WriteTodosOutcome(r).todos), <<>>)))
  /\ node' = "agent"
  /\ UNCHANGED <<a_pc, a_task, thread_id, result>>
  /\ UNCHANGED <<jsonVars, textVars>>

\* Contents of write_todos messages of other agents run_agent may be given
\* (it reads a list, and skips a dict with no "todos" key): a list, a dict
\* with no "todos" key, a dict whose "todos" is null.
OtherToolContents ==
  { <<"[", "\"", "R", "\"", "]">>,
    <<"{", "}">>,
    <<"{", "\"", "todos", "\"", ":", " ", "n", "u", "l", "l", "}">> }

\* The tools node of such an agent: its write_todos message has that content.
ToolReturnsOther ==
  /\ a_pc = "stream"
  /\ node = "tools"
  /\ PendingTool = "write_todos"
  /\ \E c \in OtherToolContents :
       LoopBody(Append(messages, Msg("tool", "write_todos", c, <<>>)))
  /\ node' = "agent"
  /\ UNCHANGED <<a_pc, a_task, thread_id, result>>
  /\ UNCHANGED <<jsonVars, textVars>>

\* The exceptions write_todos raises for some reply of its LLM.
ToolExceptions ==
  ProviderErrors \cup
    { WriteTodosOutcome(r).exc : r \in { x \in AgentPlannerReplies : WriteTodosOutcome(x).kind = "raise" } }

\* The tools node turns a tool's exception, or an unknown tool, into a tool
\* message holding the error.
ToolErrorHandled ==
  /\ a_pc = "stream"
  /\ node = "tools"
  /\ \E exc \in (IF PendingTool = "write_todos" THEN ToolExceptions ELSE {"not a valid tool"}) :
       LoopBody(Append(messages, Msg("tool", PendingTool, ToolErrorContent(exc), <<>>)))
  /\ node' = "agent"
  /\ UNCHANGED <<a_pc, a_task, thread_id, result>>
  /\ UNCHANGED <<jsonVars, textVars>>

\* The tools node lets the tool's exception through (whether it does depends
\* on the agent framework's version): out of agent.stream and run_agent.
ToolErrorPropagates ==
  /\ a_pc = "stream"
  /\ node = "tools"
  /\ PendingTool = "write_todos"
  /\ a_pc' = "raised"
  /\ UNCHANGED <<a_task, thread_id, node, messages, saved, final_state, todos, result>>
  /\ UNCHANGED <<jsonVars, textVars>>

\* The stream is over: final_state["todos"] is set for truthy todos, and the
\* result is built and returned.
StreamEnds ==
  /\ a_pc = "stream"
  /\ node = "end"
  /\ final_state' = IF final_state.set /\ Truthy(todos)
                      THEN [final_state EXCEPT !.has_todos = TRUE, !.todos = todos]
                      ELSE final_state
  /\ result' = [set |-> TRUE, task |-> a_task,
                messages |-> IF final_state.set THEN final_state.messages ELSE <<>>,
                todos |-> todos]
  /\ a_pc' = "done"
  /\ UNCHANGED <<a_task, thread_id, node, messages, saved, todos>>
  /\ UNCHANGED <<jsonVars, textVars>>

\* The run is over and its frame is gone; the checkpointer keeps the thread.
AgentFinish ==
  /\ a_pc \in {"done", "raised"}
  /\ a_pc' = "idle"
  /\ a_task' = <<>>
  /\ thread_id' = ""
  /\ node' = ""
  /\ messages' = <<>>
  /\ final_state' = NoState
  /\ todos' = EmptyList
  /\ result' = NoResult
  /\ UNCHANGED saved
  /\ UNCHANGED <<jsonVars, textVars>>

\* ---------------------------------------------------------- specifications
Init == InitJson /\ InitText /\ InitAgent

\* Calls of write_todos (JSON mode), one after the other.
Next == Call \/ LlmReturns \/ LlmRaises \/ Clean \/ Decode \/ Build \/ Finish

Spec == Init /\ [][Next]_vars

\* Calls of write_todos (text mode), one after the other.
NextText == TextCall \/ TextLlmReturns \/ TextLlmRaises \/ TextFinish

SpecText == Init /\ [][NextText]_vars

\* Runs of run_agent, one after the other, on one agent.
NextAgent ==
  \/ RunAgent
  \/ StreamInput
  \/ AgentCallsTool
  \/ AgentAnswers
  \/ AgentRaises
  \/ ToolReturns
  \/ ToolReturnsOther
  \/ ToolErrorHandled
  \/ ToolErrorPropagates
  \/ StreamEnds
  \/ AgentFinish

SpecAgent == Init /\ [][NextAgent]_vars

\* ------------------------------------------------------ claims, JSON mode
\* The plan an array of step texts stands for.
PlanOf(A) == [i \in 1..Len(A) |-> [task |-> A[i], status |-> "pending"]]

\* A call that got a reply from the LLM and is over.
Answered == pc = "done" /\ reply.raised = ""

\* C1: when the cleaned response is the JSON text of an array of N strings,
\* the call returns exactly N todos, their tasks the array's strings in the
\* same order, each with status "pending".
C1_ArrayBecomesPlan ==
  Answered =>
    \A A \in Arrays : cleaned = EncodeArray(A) => outcome = Returned(PlanOf(A))

C1_Witness ==
  /\ Answered
  /\ response_text = Wrap("fence_json", EncodeArray(<< <<"R">>, <<" ", "D", "\"">> >>))
  /\ outcome.kind = "return"
  /\ Len(outcome.todos) = 2
  /\ outcome.todos[1].task = <<"R">>

\* A decoded value holding a float json.loads makes of NaN or an Infinity.
RECURSIVE HasLenientFloat(_)
HasLenientFloat(val) ==
  CASE val.t = "float" -> val.v \in {<<"nan">>, <<"inf">>, <<"-inf">>}
    [] val.t = "list" -> \E i \in 1..Len(val.v) : HasLenientFloat(val.v[i])
    [] val.t = "dict" -> \E i \in 1..Len(val.v) : HasLenientFloat(val.v[i][2])
    [] OTHER -> FALSE

\* A text that is one JSON value (RFC 8259): NaN and the Infinities are none.
IsValidJson(s) == JsonLoads(s).ok /\ ~HasLenientFloat(JsonLoads(s).val)

\* C2: when the cleaned response is not valid JSON, the call raises a
\* ValueError whose message holds the raw response text, and returns no plan.
C2_InvalidJsonRaisesWithRaw ==
  (Answered /\ ~IsValidJson(cleaned)) =>
    /\ outcome.kind = "raise"
    /\ outcome.exc = "ValueError"
    /\ Contains(outcome.msg, response_text)

\* A decoded value that is no array whose elements are all strings.
NotArrayOfStrings(val) ==
  \/ val.t \in {"dict", "int", "float", "NoneType", "bool", "str"}
  \/ val.t = "list" /\ \E i \in 1..Len(val.v) : val.v[i].t # "str"

\* C3: when the response decodes to a value that is no array of strings, the
\* call raises a ValueError and returns no plan.
C3_WrongShapeRaises ==
  (Answered /\ steps # NoValue /\ NotArrayOfStrings(steps)) =>
    outcome.kind = "raise" /\ outcome.exc = "ValueError"

C3_Witness ==
  /\ Answered
  /\ cleaned = <<"[", "\"", "R", "\"", ",", " ", "2", "]">>
  /\ steps.t = "list"
  /\ outcome.kind = "raise"

\* C4: a fenced response (with or without a language tag, padded or not)
\* yields the plan an earlier call got from the same array unwrapped.
C4_FenceTransparent ==
  (Answered /\ prev.called /\ prev.reply.raised = "") =>
    \A A \in Arrays : \A w \in FencedWrappers :
      (prev.reply.content = EncodeArray(A) /\ response_text = Wrap(w, EncodeArray(A)))
        => outcome.kind = "return" /\ outcome = prev.outcome

C4_Witness ==
  /\ Answered
  /\ prev.called
  /\ prev.reply.content = EncodeArray(<< <<"R">>, <<>> >>)
  /\ response_text = Wrap("padded_fence_json", EncodeArray(<< <<"R">>, <<>> >>))
  /\ outcome.kind = "return"
  /\ Len(outcome.todos) = 2

\* C5: every todo of a returned plan has a task that is non-empty and has no
\* leading or trailing whitespace.
C5_TasksNonEmptyTrimmed ==
  (Answered /\ outcome.kind = "return") =>
    \A i \in 1..Len(outcome.todos) :
      outcome.todos[i].task # <<>> /\ Strip(outcome.todos[i].task) = outcome.todos[i].task

\* C6: every ValueError of the parsing, from either check, holds the raw
\* response text in its message.
C6_EveryParseErrorCarriesRaw ==
  (Answered /\ outcome.kind = "raise" /\ outcome.exc = "ValueError") =>
    Contains(outcome.msg, response_text)

\* C7: a call makes exactly one llm.invoke call, and when that call raises,
\* the call ends raising that same exception, with no plan.
C7_OneCallFailurePropagates ==
  /\ llm_calls <= 1
  /\ pc = "done" =>
       /\ llm_calls = 1
       /\ reply.raised # "" =>
            /\ outcome.kind = "raise"
            /\ outcome.exc = reply.raised
            /\ outcome.msg = <<>>
            /\ outcome.todos = <<>>

C7_Witness ==
  /\ pc = "done"
  /\ reply.raised = "RateLimitError"
  /\ llm_calls = 1
  /\ outcome.exc = "RateLimitError"

\* C8: a call whose LLM reply equals that of an earlier call has that call's
\* outcome, whatever calls came between.
C8_OutcomeDependsOnReplyOnly ==
  (pc = "done" /\ prev.called /\ prev.reply = reply) => outcome = prev.outcome

C8_Witness ==
  /\ pc = "done"
  /\ prev.called
  /\ prev.reply = reply
  /\ reply.content = Wrap("fence", EncodeArray(<< <<"R">> >>))
  /\ outcome.kind = "return"

\* ------------------------------------------------------ claims, text mode
\* C9: in numbered-text mode the reply "1. Research X", "2) Draft Y",
\* "- Review Z" comes back as the todos "Research X", "Draft Y", "Review Z",
\* in that order, each with status "pending".
C9_NumberedTextParsed ==
  (/\ t_pc = "done"
   /\ t_reply.raised = ""
   /\ t_reply.content = JoinLines(<< <<"1", ".", " ", "Research X">>,
                                     <<"2", ")", " ", "Draft Y">>,
                                     <<"-", " ", "Review Z">> >>))
    => /\ t_outcome.kind = "return"
       /\ t_outcome.val.t = "list"
       /\ t_outcome.val.v = PlanOf(<< <<"Research X">>, <<"Draft Y">>, <<"Review Z">> >>)

\* ------------------------------------------------------ claims, run_agent
\* An assistant message that asks for no tool: a final response.
IsFinalAnswer(m) == m.type = "ai" /\ m.tool_calls = <<>>

\* The index of a run's input: the last user message of its messages.
RunStart(msgs) ==
  CHOOSE k \in 0..Len(msgs) :
    /\ k # 0 => msgs[k].type = "human"
    /\ \A j \in (k + 1)..Len(msgs) : msgs[j].type # "human"

\* C10: in the messages a run of run_agent returns, every final assistant
\* response of the run comes after a write_todos tool message of the run.
C10_PlansBeforeAnswering ==
  a_pc = "done" =>
    \A i \in (RunStart(result.messages) + 1)..Len(result.messages) :
      IsFinalAnswer(result.messages[i]) =>
        \E j \in (RunStart(result.messages) + 1)..(i - 1) :
          result.messages[j].type = "tool" /\ result.messages[j].name = "write_todos"

\* Whether a decoded content is a dict with a "todos" key or a list.
IsTodosCarrier(val) ==
  \/ val.t = "list"
  \/ val.t = "dict" /\ \E i \in 1..Len(val.v) : val.v[i][1] = <<"todos">>

\* The todo list such a decoded content carries.
CarriedTodos(val) ==
  IF val.t = "list" THEN val
  ELSE LET k == CHOOSE i \in 1..Len(val.v) :
                  val.v[i][1] = <<"todos">>
                    /\ \A j \in (i + 1)..Len(val.v) : val.v[j][1] # <<"todos">>
       IN  val.v[k][2]

\* The todos carried by the last write_todos message of msgs whose content
\* parses to a dict with a "todos" key or to a list; the empty list for none.
RECURSIVE LastCarriedTodos(_)
LastCarriedTodos(msgs) ==
  IF msgs = <<>> THEN EmptyList
  ELSE LET m == msgs[Len(msgs)]
           r == IF m.name = "write_todos" THEN JsonLoads(m.content) ELSE ScanFail
       IN  IF r.ok /\ IsTodosCarrier(r.val)
             THEN CarriedTodos(r.val)
             ELSE LastCarriedTodos(SubSeq(msgs, 1, Len(msgs) - 1))

\* C11: after every event of the stream, run_agent's todos are those of the
\* last write_todos message so far whose content parses to a dict with a
\* "todos" key or to a list (the empty list for none): a message that does
\* not parse leaves them as they were, and the run goes on; the result's
\* todos are those of the final state.
C11_TodosOfLastParsedMessage ==
  /\ (a_pc \in {"stream", "done"} /\ final_state.set) =>
       todos = LastCarriedTodos(final_state.messages)
  /\ a_pc = "done" =>
       /\ result.set
       /\ result.messages = final_state.messages
       /\ result.todos = LastCarriedTodos(result.messages)

C11_Witness ==
  /\ a_pc = "done"
  /\ thread_id = "fresh"
  /\ Len(result.messages) = 7
  /\ result.messages[4].name = "write_todos"
  /\ result.messages[4].content = EncodeResult(<< [task |-> <<"R">>, status |-> "pending"] >>)
  /\ result.messages[6].name = "write_todos"
  /\ result.messages[6].content = ToolErrorContent("ValueError")
  /\ Len(result.todos.v) = 1
  /\ result.todos.v[1].v[1] = << <<"task">>, [t |-> "str", v |-> <<"R">>] >>

====
